---- MODULE Spec2Model ----
(***************************************************************************)
(* Model of picow_access_point.c: an HTTP alarm controller for the Pico W. *)
(* The state is the TCP_SERVER_T instance, the hardware outputs driven by  *)
(* update_alarm, the lwIP connection control blocks with the callbacks the *)
(* program registers on them, and the heap cells holding the               *)
(* TCP_CONNECT_STATE_T of each accepted connection.  Every lwIP callback   *)
(* and every iteration of the main loop is one action.                     *)
(*                                                                         *)
(* Text is kept byte by byte: a C string literal is a TLA+ string and a    *)
(* buffer is a string of as many bytes as the array holds.  Times are in   *)
(* milliseconds.                                                           *)
(***************************************************************************)
EXTENDS Integers, Sequences, FiniteSets, TLC

(***************************************************************************)
(* Program constants                                                       *)
(***************************************************************************)
PWM_FREQ_HZ == 1000
CLOCK_DIV == 2
PWM_WRAP == (125000000 \div (PWM_FREQ_HZ * CLOCK_DIV)) % 65536
BEEP_DURATION_MS == 200
BEEP_INTERVAL_MS == 100
SLEEP_MS == 10
HEADERS_SIZE == 128
RESULT_SIZE == 256
HTTP_GET == "GET"
ALARM_CONTROL == "/alarm"
\* The literal part of ALARM_PARAM, "alarm=%d".
ALARM_PARAM == "alarm="
\* IP4_ADDR(&state->gw, 192, 168, 4, 1)
gw == <<192, 168, 4, 1>>

(***************************************************************************)
(* Bounds of the model                                                     *)
(***************************************************************************)
\* The main loop makes no further iteration once the clock is past MaxTime.
MaxTime == 100
\* Connection control blocks lwIP can hand out at once.
MaxPcb == 2
\* Heap cells calloc can hand out at once.
MaxCell == 2
\* Connection attempts and data segments the clients make in one run.
MaxEvents == 3
\* One iteration of the main loop lasts SLEEP_MS times one of these factors
\* (the sleep plus the time spent redrawing the display over I2C).
LoopStretch == {5}
\* Sizes lwIP acknowledges in one tcp_server_sent call, besides "all of it".
AckChunks == {200}

Pcbs == 1..MaxPcb
Cells == 1..MaxCell
\* The null pointer, for pcbs and for cells.
NULL == 0

(***************************************************************************)
(* Bytes and C strings                                                     *)
(***************************************************************************)
\* The zero byte, as it is written inside buffer strings (no request and no
\* template of the program holds a form feed).
NUL == "\f"

Char(s, i) == SubSeq(s, i, i)

Min(a, b) == IF a < b THEN a ELSE b

\* n zero bytes, for n up to RESULT_SIZE.
Zeros(n) ==
    LET z4   == NUL \o NUL \o NUL \o NUL
        z16  == z4 \o z4 \o z4 \o z4
        z64  == z16 \o z16 \o z16 \o z16
    IN  SubSeq(z64 \o z64 \o z64 \o z64, 1, n)

\* The byte at 1-based position i of a headers-sized buffer.  Position
\* HEADERS_SIZE always holds NUL (calloc zeroes it and nothing writes a
\* non-zero byte there), so no scan of the program runs past it; a read past
\* it yields NUL here.
At(buf, i) == IF i \in 1..HEADERS_SIZE THEN Char(buf, i) ELSE NUL

\* buf with byte c stored at position i.
Poke(buf, i, c) == SubSeq(buf, 1, i - 1) \o c \o SubSeq(buf, i + 1, Len(buf))

\* strchr(buf + from - 1, c) for a byte c other than NUL: the scan stops at
\* the first c or NUL; the position of the c found, or NULL.
strchr(buf, from, c) ==
    LET stops == {i \in from..HEADERS_SIZE : Char(buf, i) \in {c, NUL}}
        first == CHOOSE i \in stops : \A j \in stops : i <= j
    IN  IF stops # {} /\ Char(buf, first) = c THEN first ELSE NULL

\* strncmp(lit, buf + from - 1, n) == 0, for a literal with no NUL in its
\* first n bytes.
strncmp0(lit, buf, from, n) ==
    /\ from + n - 1 <= Len(buf)
    /\ SubSeq(buf, from, from + n - 1) = SubSeq(lit, 1, n)

Digits == "0123456789"
IsDigit(c) == \E d \in 0..9 : c = Char(Digits, d + 1)
DigitVal(c) == CHOOSE d \in 0..9 : c = Char(Digits, d + 1)
IsSpace(c) == c \in {" ", "\t", "\n", "\r"}

RECURSIVE Dec(_)
\* printf's %d of a non-negative int.
Dec(n) == IF n < 10 THEN Char(Digits, n + 1)
          ELSE Dec(n \div 10) \o Char(Digits, (n % 10) + 1)

RECURSIVE SkipSpace(_, _)
\* The first position from from on that holds no white space.
SkipSpace(buf, from) ==
    IF IsSpace(At(buf, from)) THEN SkipSpace(buf, from + 1) ELSE from

RECURSIVE SkipDigits(_, _)
\* The first position from from on that holds no decimal digit.
SkipDigits(buf, from) ==
    IF IsDigit(At(buf, from)) THEN SkipDigits(buf, from + 1) ELSE from

RECURSIVE DigitsVal(_, _, _, _)
\* The value of the decimal digits buf[from..to], read left to right.
DigitsVal(buf, from, to, acc) ==
    IF from > to THEN acc
    ELSE DigitsVal(buf, from + 1, to, 10 * acc + DigitVal(Char(buf, from)))

\* sscanf(buf + from - 1, "alarm=%d", &v): n is the return value (the number
\* of conversions), val the int stored when n = 1.
sscanf(buf, from) ==
    IF ~strncmp0(ALARM_PARAM, buf, from, Len(ALARM_PARAM))
    THEN [n |-> 0, val |-> 0]
    ELSE LET ws  == SkipSpace(buf, from + Len(ALARM_PARAM))
             neg == At(buf, ws) = "-"
             d0  == IF At(buf, ws) \in {"-", "+"} THEN ws + 1 ELSE ws
             d1  == SkipDigits(buf, d0)
             v   == DigitsVal(buf, d0, d1 - 1, 0)
         IN  IF d1 > d0
             THEN [n |-> 1, val |-> IF neg THEN 0 - v ELSE v]
             ELSE [n |-> 0, val |-> 0]

\* snprintf(buf, size, "%s", text): the buffer afterwards and the return
\* value, the length the whole text would need.
snprintf(buf, size, text) ==
    LET w == Min(Len(text), size - 1)
    IN  [buf |-> SubSeq(text, 1, w) \o NUL \o SubSeq(buf, w + 2, size),
         ret |-> Len(text)]

(***************************************************************************)
(* The response templates                                                  *)
(***************************************************************************)
\* HTTP_RESPONSE_HEADERS rendered with its two %d.
HTTP_RESPONSE_HEADERS(code, len) ==
    "HTTP/1.1 " \o Dec(code) \o " OK\nContent-Length: " \o Dec(len)
    \o "\nContent-Type: text/html; charset=utf-8\nConnection: close\n\n"

\* ALARM_CONTROL_BODY rendered with its %s, %d, %s.
ALARM_CONTROL_BODY(status, target, label) ==
    "<html><body style=\"text-align:center;margin-top:50px\">"
    \o "<h1>Alarme</h1>"
    \o "<p>" \o status \o "</p>"
    \o "<a href=\"?alarm=" \o Dec(target)
    \o "\" style=\"background:#4CAF50;color:white;padding:5px 10px;text-decoration:none\">"
    \o label \o "</a>"
    \o "</body></html>"

\* HTTP_RESPONSE_REDIRECT rendered with its %s.
HTTP_RESPONSE_REDIRECT(host) ==
    "HTTP/1.1 302 Redirect\nLocation: http://" \o host \o ALARM_CONTROL \o "\n\n"

ipaddr_ntoa(a) ==
    Dec(a[1]) \o "." \o Dec(a[2]) \o "." \o Dec(a[3]) \o "." \o Dec(a[4])

(***************************************************************************)
(* State                                                                   *)
(***************************************************************************)
VARIABLES
    \* TCP_SERVER_T
    server_pcb,        \* TRUE while the listening pcb is set
    complete,
    alarm_active,
    next_toggle_time,
    beep_active,
    beep_end_time,
    \* update_alarm's static local and the hardware it drives
    led_state,
    gpio_led,          \* level of RED_LED_GPIO
    pwm_level,         \* level of PWM_GPIO
    display,           \* the two lines last drawn
    \* the main program
    now,               \* get_absolute_time(), in ms
    pc,                \* "loop" inside the while loop, "done" after cleanup
    \* lwIP and the heap
    pcb,               \* per connection control block: state, arg, callbacks
    heap,              \* per heap cell: a TCP_CONNECT_STATE_T or free
    \* observation of the last lwIP callback run
    last,
    nevents            \* connection attempts and data segments so far

vars == <<server_pcb, complete, alarm_active, next_toggle_time, beep_active,
          beep_end_time, led_state, gpio_led, pwm_level, display, now, pc,
          pcb, heap, last, nevents>>

serverVars == <<server_pcb, complete, alarm_active, next_toggle_time,
                beep_active, beep_end_time>>
alarmVars == <<next_toggle_time, beep_active, beep_end_time, led_state,
               gpio_led, pwm_level, display>>

Callbacks == {"sent", "recv", "poll", "err"}

\* A control block lwIP holds no connection in (or has released).
FreePcb == [st |-> "free", arg |-> NULL, cbs |-> {}, unacked |-> 0]

\* calloc(1, sizeof(TCP_CONNECT_STATE_T)): every field zero.  The gw and
\* server_state pointers always point at the one TCP_SERVER_T.
ZeroCell == [live |-> TRUE, pcb |-> NULL, sent_len |-> 0,
             headers |-> Zeros(HEADERS_SIZE), result |-> "",
             header_len |-> 0, result_len |-> 0]

\* A cell that is not allocated.
DeadCell == [ZeroCell EXCEPT !.live = FALSE]

\* What a callback run leaves for observation.
NoLast == [op |-> "init", pcb |-> NULL, req |-> "", wrote |-> <<>>,
           ret |-> "ERR_OK", closed |-> FALSE, stale |-> FALSE,
           refree |-> FALSE, unacked |-> 0, len |-> 0]

Init ==
    /\ server_pcb = TRUE
    /\ complete = FALSE
    /\ alarm_active = FALSE
    /\ next_toggle_time = 0
    /\ beep_active = FALSE
    /\ beep_end_time = 0
    /\ led_state = FALSE
    /\ gpio_led = FALSE
    /\ pwm_level = 0
    /\ display = <<"Iniciando", "sistema...">>
    /\ now = 0
    /\ pc = "loop"
    /\ pcb = [p \in Pcbs |-> FreePcb]
    /\ heap = [c \in Cells |-> DeadCell]
    /\ last = NoLast
    /\ nevents = 0

(***************************************************************************)
(* The alarm                                                               *)
(***************************************************************************)
\* The else branch of update_alarm with the buzzer left as it was.
update_alarm_off_keeps_beep ==
    /\ gpio_led' = FALSE
    /\ display' = <<"Sistema", "em repouso">>
    /\ UNCHANGED <<pwm_level, beep_active, led_state, beep_end_time, next_toggle_time>>

\* The else branch of update_alarm with the LED left as it was.
update_alarm_off_keeps_led ==
    /\ pwm_level' = 0
    /\ beep_active' = FALSE
    /\ display' = <<"Sistema", "em repouso">>
    /\ UNCHANGED <<gpio_led, led_state, beep_end_time, next_toggle_time>>

\* update_alarm's else branch: the alarm is off.
update_alarm_off ==
    /\ gpio_led' = FALSE
    /\ pwm_level' = 0
    /\ beep_active' = FALSE
    /\ display' = <<"Sistema", "em repouso">>
    /\ UNCHANGED <<led_state, beep_end_time, next_toggle_time>>

\* update_alarm(state)
update_alarm ==
    IF alarm_active
    THEN LET due  == next_toggle_time - now <= 0
             ls   == IF due THEN ~led_state ELSE led_state
             beep == IF due THEN ls ELSE beep_active
             bend == IF due /\ ls THEN now + BEEP_DURATION_MS ELSE beep_end_time
             pwm  == IF due THEN (IF ls THEN PWM_WRAP \div 2 ELSE 0) ELSE pwm_level
             over == beep /\ bend - now <= 0
         IN  /\ led_state' = ls
             /\ gpio_led' = (IF due THEN ls ELSE gpio_led)
             /\ beep_end_time' = bend
             /\ next_toggle_time' =
                    (IF due THEN now + BEEP_INTERVAL_MS ELSE next_toggle_time)
             /\ pwm_level' = (IF over THEN 0 ELSE pwm)
             /\ beep_active' = (IF over THEN FALSE ELSE beep)
             /\ display' = <<"ALARME", "EVACUAR">>
    ELSE update_alarm_off

\* One iteration of main's while loop: update_alarm, then the sleep.
Tick(k) ==
    /\ pc = "loop"
    /\ ~complete
    /\ now <= MaxTime
    /\ update_alarm
    /\ now' = now + SLEEP_MS * k
    /\ UNCHANGED <<server_pcb, complete, alarm_active, pc, pcb, heap, last, nevents>>

(***************************************************************************)
(* The content generator                                                   *)
(***************************************************************************)
\* A toggle that flips the state on every request carrying a value.
ToggledFlip(buf, params, active) ==
    IF params # NULL /\ sscanf(buf, params).n = 1
    THEN ~active
    ELSE active

\* The toggle of alarm_control_content: state->alarm_active after the
\* sscanf of params (a position in buf, or NULL), from its value active.
Toggled(buf, params, active) ==
    IF params # NULL /\ sscanf(buf, params).n = 1
    THEN sscanf(buf, params).val # 0
    ELSE active

\* The page alarm_control_content renders for alarm_active act.
PageText(act) ==
    IF act THEN ALARM_CONTROL_BODY("ATIVADO", 0, "Desligar")
    ELSE ALARM_CONTROL_BODY("DESATIVADO", 1, "Ligar")

\* The snprintf of text into result: the return value, the buffer's string,
\* and state->alarm_active, which is act.
RenderPage(max_result_len, act, text) ==
    [len |-> Len(text),
     result |-> SubSeq(text, 1, Min(Len(text), max_result_len - 1)),
     alarm_active |-> act]

\* A rendering that shows the page of the state opposite to act.
RenderStateBefore(max_result_len, act) ==
    RenderPage(max_result_len, act, PageText(~act))

\* The rendering of alarm_control_content once state->alarm_active is act.
RenderState(max_result_len, act) ==
    RenderPage(max_result_len, act, PageText(act))

\* alarm_control_content(request, params, result, max_result_len, state):
\* request and params are positions in buf (params may be NULL), active is
\* state->alarm_active on entry.  Yields the return value, the result
\* buffer's string and state->alarm_active on return.
alarm_control_content(buf, request, params, result, max_result_len, active) ==
    IF strncmp0(ALARM_CONTROL, buf, request, Len(ALARM_CONTROL))
    THEN RenderState(max_result_len, Toggled(buf, params, active))
    ELSE [len |-> 0, result |-> result, alarm_active |-> active]

(***************************************************************************)
(* Connections                                                             *)
(***************************************************************************)
\* An allocator that hands out the first cell whether or not it is free.
calloc_first(hp, ok) == IF ok THEN 1 ELSE NULL

\* calloc: the lowest free cell, or NULL when the allocation fails.
calloc(hp, ok) ==
    IF ok /\ \E c \in Cells : ~hp[c].live
    THEN CHOOSE c \in Cells : ~hp[c].live /\ \A d \in Cells : ~hp[d].live => c <= d
    ELSE NULL

\* tcp_close_client_connection(con_state, client_pcb, close_err) on control
\* blocks pcbs and heap hp; close_ok says whether tcp_close returns ERR_OK.
\* stale: the tcp_ calls were made on a control block lwIP had already
\* released; refree: free() was called on a cell that was not allocated;
\* unacked: bytes written to the connection and not yet acknowledged.
tcp_close_client_connection(pcbs, hp, con_state, client_pcb, close_err, close_ok) ==
    IF client_pcb # NULL
    THEN [pcb |-> [pcbs EXCEPT ![client_pcb] = FreePcb],
          heap |-> IF con_state # NULL
                   THEN [hp EXCEPT ![con_state] = DeadCell] ELSE hp,
          ret |-> IF close_ok THEN close_err ELSE "ERR_ABRT",
          closed |-> TRUE,
          stale |-> pcbs[client_pcb].st # "estab",
          refree |-> con_state # NULL /\ ~hp[con_state].live,
          unacked |-> pcbs[client_pcb].unacked]
    ELSE [pcb |-> pcbs, heap |-> hp, ret |-> close_err, closed |-> FALSE,
          stale |-> FALSE, refree |-> FALSE, unacked |-> 0]

\* The observation a handler that ended in tcp_close_client_connection leaves.
Closing(op, p, x) ==
    [NoLast EXCEPT !.op = op, !.pcb = p, !.ret = x.ret, !.closed = x.closed,
                   !.stale = x.stale, !.refree = x.refree, !.unacked = x.unacked]

\* An accept handler that keeps the connection when calloc fails: the control
\* block gets the callbacks and no state.
tcp_server_accept_keeps_failed(client_pcb, err, alloc_ok) ==
    /\ pc = "loop"
    /\ server_pcb
    /\ nevents < MaxEvents
    /\ nevents' = nevents + 1
    /\ \/ /\ client_pcb \in Pcbs
          /\ pcb[client_pcb].st = "free"
          /\ \A q \in Pcbs : pcb[q].st = "free" => client_pcb <= q
          /\ err = "ERR_OK"
       \/ /\ client_pcb = NULL
          /\ err = "ERR_MEM"
    /\ IF err # "ERR_OK" \/ client_pcb = NULL
       THEN /\ last' = [NoLast EXCEPT !.op = "accept", !.ret = "ERR_VAL"]
            /\ UNCHANGED <<pcb, heap>>
       ELSE LET con_state == calloc(heap, alloc_ok)
            IN  IF con_state = NULL
                THEN /\ last' = [NoLast EXCEPT !.op = "accept", !.ret = "ERR_MEM"]
                     /\ pcb' = [pcb EXCEPT ![client_pcb] =
                                    [st |-> "estab", arg |-> NULL,
                                     cbs |-> Callbacks, unacked |-> 0]]
                     /\ UNCHANGED heap
                ELSE /\ heap' = [heap EXCEPT ![con_state] =
                                    [ZeroCell EXCEPT !.pcb = client_pcb]]
                     /\ pcb' = [pcb EXCEPT ![client_pcb] =
                                    [st |-> "estab", arg |-> con_state,
                                     cbs |-> Callbacks, unacked |-> 0]]
                     /\ last' = [NoLast EXCEPT !.op = "accept", !.pcb = client_pcb]
    /\ UNCHANGED <<serverVars, led_state, gpio_led, pwm_level, display, now, pc>>

\* tcp_server_accept(arg, client_pcb, err).  lwIP passes a control block it
\* has just set up (the lowest free one here) with ERR_OK, or NULL with
\* ERR_MEM when it has none; on a return other than ERR_OK it aborts the
\* control block.  alloc_ok: whether calloc succeeds.
tcp_server_accept(client_pcb, err, alloc_ok) ==
    /\ pc = "loop"
    /\ server_pcb
    /\ nevents < MaxEvents
    /\ nevents' = nevents + 1
    /\ \/ /\ client_pcb \in Pcbs
          /\ pcb[client_pcb].st = "free"
          /\ \A q \in Pcbs : pcb[q].st = "free" => client_pcb <= q
          /\ err = "ERR_OK"
       \/ /\ client_pcb = NULL
          /\ err = "ERR_MEM"
    /\ IF err # "ERR_OK" \/ client_pcb = NULL
       THEN /\ last' = [NoLast EXCEPT !.op = "accept", !.ret = "ERR_VAL"]
            /\ UNCHANGED <<pcb, heap>>
       ELSE LET con_state == calloc(heap, alloc_ok)
            IN  IF con_state = NULL
                THEN /\ last' = [NoLast EXCEPT !.op = "accept", !.ret = "ERR_MEM"]
                     /\ UNCHANGED <<pcb, heap>>
                ELSE /\ heap' = [heap EXCEPT ![con_state] =
                                    [ZeroCell EXCEPT !.pcb = client_pcb]]
                     /\ pcb' = [pcb EXCEPT ![client_pcb] =
                                    [st |-> "estab", arg |-> con_state,
                                     cbs |-> Callbacks, unacked |-> 0]]
                     /\ last' = [NoLast EXCEPT !.op = "accept", !.pcb = client_pcb]
    /\ UNCHANGED <<serverVars, led_state, gpio_led, pwm_level, display, now, pc>>

\* tcp_server_sent(arg, pcb, len): lwIP reports len more bytes acknowledged.
tcp_server_sent(p, len, close_ok) ==
    /\ pc = "loop"
    /\ pcb[p].st = "estab"
    /\ "sent" \in pcb[p].cbs
    /\ len \in 1..pcb[p].unacked
    /\ LET con_state == pcb[p].arg
           acked == [pcb EXCEPT ![p].unacked = @ - len]
           sl == heap[con_state].sent_len + len
           hp == [heap EXCEPT ![con_state].sent_len = sl]
       IN  IF sl >= heap[con_state].header_len + heap[con_state].result_len
           THEN LET x == tcp_close_client_connection(acked, hp, con_state, p,
                                                     "ERR_OK", close_ok)
                IN  /\ pcb' = x.pcb
                    /\ heap' = x.heap
                    /\ last' = [Closing("sent", p, x) EXCEPT !.len = len]
           ELSE /\ pcb' = acked
                /\ heap' = hp
                /\ last' = [NoLast EXCEPT !.op = "sent", !.pcb = p, !.len = len]
    /\ UNCHANGED <<serverVars, led_state, gpio_led, pwm_level, display, now, pc, nevents>>

\* A poll handler that returns without closing, and disarms the alarm.
tcp_server_poll_disarms(p, close_ok) ==
    /\ pc = "loop"
    /\ pcb[p].st = "estab"
    /\ "poll" \in pcb[p].cbs
    /\ alarm_active' = FALSE
    /\ last' = [NoLast EXCEPT !.op = "poll", !.pcb = p]
    /\ UNCHANGED <<server_pcb, complete, alarmVars, now, pc, pcb, heap, nevents>>

\* A poll handler that returns without closing.
tcp_server_poll_idle(p, close_ok) ==
    /\ pc = "loop"
    /\ pcb[p].st = "estab"
    /\ "poll" \in pcb[p].cbs
    /\ last' = [NoLast EXCEPT !.op = "poll", !.pcb = p]
    /\ UNCHANGED <<serverVars, led_state, gpio_led, pwm_level, display, now, pc,
                   pcb, heap, nevents>>

\* tcp_server_poll(arg, pcb)
tcp_server_poll(p, close_ok) ==
    /\ pc = "loop"
    /\ pcb[p].st = "estab"
    /\ "poll" \in pcb[p].cbs
    /\ LET x == tcp_close_client_connection(pcb, heap, pcb[p].arg, p,
                                            "ERR_OK", close_ok)
       IN  /\ pcb' = x.pcb
           /\ heap' = x.heap
           /\ last' = Closing("poll", p, x)
    /\ UNCHANGED <<serverVars, led_state, gpio_led, pwm_level, display, now, pc, nevents>>

\* tcp_server_err(arg, err).  lwIP has released the control block by the
\* time it calls the error callback; the handler takes the control block
\* from con_state->pcb.  What the tcp_ calls on a released control block do
\* inside lwIP is not modelled: the run is marked stale.
tcp_server_err(p, err, close_ok) ==
    /\ pc = "loop"
    /\ pcb[p].st = "estab"
    /\ "err" \in pcb[p].cbs
    /\ LET con_state == pcb[p].arg
           released == [pcb EXCEPT ![p] = FreePcb]
       IN  IF err # "ERR_ABRT"
           THEN LET x == tcp_close_client_connection(released, heap, con_state,
                             heap[con_state].pcb, err, close_ok)
                IN  /\ pcb' = x.pcb
                    /\ heap' = x.heap
                    /\ last' = Closing("err", p, x)
           ELSE /\ pcb' = released
                /\ heap' = heap
                /\ last' = [NoLast EXCEPT !.op = "err", !.pcb = p, !.ret = err]
    /\ UNCHANGED <<serverVars, led_state, gpio_led, pwm_level, display, now, pc, nevents>>

\* tcp_server_recv(arg, pcb, p, err) with p == NULL: the peer closed.
tcp_server_recv_null(p, close_ok) ==
    /\ pc = "loop"
    /\ pcb[p].st = "estab"
    /\ "recv" \in pcb[p].cbs
    /\ LET x == tcp_close_client_connection(pcb, heap, pcb[p].arg, p,
                                            "ERR_OK", close_ok)
       IN  /\ pcb' = x.pcb
           /\ heap' = x.heap
           /\ last' = Closing("recv_null", p, x)
    /\ UNCHANGED <<serverVars, led_state, gpio_led, pwm_level, display, now, pc, nevents>>

\* pbuf_copy_partial into con_state->headers: at most sizeof(headers) - 1
\* bytes of the segment, over what the buffer held.
CopyRequest(headers, data) ==
    SubSeq(data, 1, Min(Len(data), HEADERS_SIZE - 1))
    \o SubSeq(headers, Min(Len(data), HEADERS_SIZE - 1) + 1, HEADERS_SIZE)

\* The splitting of the copied request at the positions strchr found for
\* '?' and ' ' (NULL when not found): the buffer after the terminators are
\* written, and the positions of request and params.
SplitRequest(copied, request, qmark, space) ==
    IF qmark # NULL /\ At(copied, qmark) # NUL
    THEN [get |-> strncmp0(HTTP_GET, copied, 1, Len(HTTP_GET)),
          copied |-> copied, request |-> request, params |-> qmark + 1,
          buf |-> IF space # NULL
                  THEN Poke(Poke(copied, qmark, NUL), space, NUL)
                  ELSE Poke(copied, qmark, NUL)]
    ELSE [get |-> strncmp0(HTTP_GET, copied, 1, Len(HTTP_GET)),
          copied |-> copied, request |-> request, params |-> NULL,
          buf |-> copied]

\* The request parsing of tcp_server_recv on buffer copied; request is
\* headers + sizeof(HTTP_GET).
ParseRequest(copied) ==
    SplitRequest(copied, Len(HTTP_GET) + 2,
                 strchr(copied, Len(HTTP_GET) + 2, "?"),
                 strchr(copied, Len(HTTP_GET) + 2, " "))

\* What lwIP may answer to the calls one handler run makes: w1 and w2 are
\* tcp_write's returns for the header and for the body, close_ok is whether
\* tcp_close returns ERR_OK.
Answers ==
    {[w1 |-> "ERR_OK", w2 |-> "ERR_OK", close_ok |-> TRUE],
     [w1 |-> "ERR_MEM", w2 |-> "ERR_OK", close_ok |-> TRUE],
     [w1 |-> "ERR_OK", w2 |-> "ERR_MEM", close_ok |-> FALSE]}

\* tcp_server_recv from a handler's exit through tcp_close_client_connection
\* with close_err err, after wrote was written.
RecvClose(p, data, pcbs, hp, err, wrote, close_ok) ==
    LET x == tcp_close_client_connection(pcbs, hp, pcb[p].arg, p, err, close_ok)
    IN  /\ pcb' = x.pcb
        /\ heap' = x.heap
        /\ last' = [Closing("recv", p, x) EXCEPT !.req = data, !.wrote = wrote]

\* The capacity checks left out: the header and the body are written whatever
\* their lengths.
RecvRespondUnchecked(p, data, gen, hdr, hp) ==
    \E a \in Answers :
        IF a.w1 # "ERR_OK"
        THEN RecvClose(p, data, pcb, hp, a.w1, <<>>, a.close_ok)
        ELSE IF gen.len # 0 /\ a.w2 # "ERR_OK"
        THEN RecvClose(p, data, [pcb EXCEPT ![p].unacked = @ + hdr.ret], hp,
                       a.w2, <<SubSeq(hdr.buf, 1, Min(hdr.ret, HEADERS_SIZE))>>,
                       a.close_ok)
        ELSE /\ pcb' = [pcb EXCEPT ![p].unacked = @ + hdr.ret + gen.len]
             /\ heap' = hp
             /\ last' = [NoLast EXCEPT
                            !.op = "recv", !.pcb = p, !.req = data,
                            !.wrote = <<SubSeq(hdr.buf, 1, Min(hdr.ret, HEADERS_SIZE))>>]

\* tcp_server_recv from the capacity checks on: gen is what
\* alarm_control_content returned, hdr what the snprintf of the header did,
\* hp the heap once con_state holds both and sent_len is reset.
RecvRespond(p, data, gen, hdr, hp) ==
    \E a \in Answers :
        IF gen.len > RESULT_SIZE - 1
        THEN RecvClose(p, data, pcb, hp, "ERR_CLSD", <<>>, a.close_ok)
        ELSE IF gen.len > 0 /\ hdr.ret > HEADERS_SIZE - 1
        THEN RecvClose(p, data, pcb, hp, "ERR_CLSD", <<>>, a.close_ok)
        ELSE IF a.w1 # "ERR_OK"
        THEN RecvClose(p, data, pcb, hp, a.w1, <<>>, a.close_ok)
        ELSE IF gen.len # 0 /\ a.w2 # "ERR_OK"
        THEN RecvClose(p, data, [pcb EXCEPT ![p].unacked = @ + hdr.ret], hp,
                       a.w2, <<SubSeq(hdr.buf, 1, hdr.ret)>>, a.close_ok)
        ELSE /\ pcb' = [pcb EXCEPT ![p].unacked = @ + hdr.ret + gen.len]
             /\ heap' = hp
             /\ last' = [NoLast EXCEPT
                            !.op = "recv", !.pcb = p, !.req = data,
                            !.wrote = IF gen.len # 0
                                      THEN <<SubSeq(hdr.buf, 1, hdr.ret),
                                             SubSeq(gen.result, 1, gen.len)>>
                                      ELSE <<SubSeq(hdr.buf, 1, hdr.ret)>>]

\* tcp_server_recv once the content is generated: the header is rendered
\* over the request.
RecvRender(p, data, gen, hdr) ==
    /\ alarm_active' = gen.alarm_active
    /\ RecvRespond(p, data, gen, hdr,
           [heap EXCEPT ![pcb[p].arg] =
               [@ EXCEPT !.headers = hdr.buf, !.result = gen.result,
                         !.header_len = hdr.ret, !.result_len = gen.len,
                         !.sent_len = 0]])

\* tcp_server_recv of a GET request parsed as rq.
RecvGet(p, data, rq, gen) ==
    RecvRender(p, data, gen,
        IF gen.len > 0
        THEN snprintf(rq.buf, HEADERS_SIZE, HTTP_RESPONSE_HEADERS(200, gen.len))
        ELSE snprintf(rq.buf, HEADERS_SIZE, HTTP_RESPONSE_REDIRECT(ipaddr_ntoa(gw))))

\* A receive path that answers whatever the method token is.
RecvParsedAnyMethod(p, data, rq) ==
    RecvGet(p, data, rq,
        alarm_control_content(rq.buf, rq.request, rq.params,
                              heap[pcb[p].arg].result, RESULT_SIZE,
                              alarm_active))

\* tcp_server_recv once the request is copied and parsed as rq.
RecvParsed(p, data, rq) ==
    IF ~rq.get
    THEN /\ alarm_active' = alarm_active
         /\ pcb' = pcb
         /\ heap' = [heap EXCEPT ![pcb[p].arg].headers = rq.copied]
         /\ last' = [NoLast EXCEPT !.op = "recv", !.pcb = p, !.req = data]
    ELSE RecvGet(p, data, rq,
             alarm_control_content(rq.buf, rq.request, rq.params,
                                   heap[pcb[p].arg].result, RESULT_SIZE,
                                   alarm_active))

\* tcp_server_recv(arg, pcb, p, err) with a pbuf holding data (tot_len > 0).
tcp_server_recv(p, data) ==
    /\ pc = "loop"
    /\ pcb[p].st = "estab"
    /\ "recv" \in pcb[p].cbs
    /\ nevents < MaxEvents
    /\ Len(data) > 0
    /\ nevents' = nevents + 1
    /\ RecvParsed(p, data,
           ParseRequest(CopyRequest(heap[pcb[p].arg].headers, data)))
    /\ UNCHANGED <<server_pcb, complete, next_toggle_time, beep_active,
                   beep_end_time, led_state, gpio_led, pwm_level, display, now, pc>>

(***************************************************************************)
(* Shutdown                                                                *)
(***************************************************************************)
\* key_pressed_func(param) with the character getchar_timeout_us returns.
key_pressed_func(key) ==
    /\ pc = "loop"
    /\ complete' = (IF key \in {"d", "D"} THEN TRUE ELSE complete)
    /\ UNCHANGED <<server_pcb, alarm_active, alarmVars, now, pc, pcb, heap, last, nevents>>

\* tcp_server_close(state)
tcp_server_close == server_pcb' = FALSE

\* A cleanup that closes the listening endpoint and leaves the LED and the
\* buzzer as the last tick drove them.
MainExit_keeps_outputs ==
    /\ pc = "loop"
    /\ complete
    /\ tcp_server_close
    /\ pc' = "done"
    /\ UNCHANGED <<complete, alarm_active, alarmVars, now, pcb, heap, last, nevents>>

\* main once the while loop's test reads complete: the final cleanup.
MainExit ==
    /\ pc = "loop"
    /\ complete
    /\ tcp_server_close
    /\ gpio_led' = FALSE
    /\ pwm_level' = 0
    /\ pc' = "done"
    /\ UNCHANGED <<complete, alarm_active, next_toggle_time, beep_active,
                   beep_end_time, led_state, display, now, pcb, heap, last, nevents>>

(***************************************************************************)
(* Inputs                                                                  *)
(***************************************************************************)
CRLF == "\r\n"
\* Request buffers a client sends.
Requests == {
    "GET /alarm HTTP/1.1" \o CRLF \o CRLF,
    "GET /alarm?alarm=1 HTTP/1.1" \o CRLF \o CRLF,
    "GET /alarm?alarm=0 HTTP/1.1" \o CRLF \o CRLF,
    "GET / HTTP/1.1" \o CRLF \o CRLF,
    "GET /alarmes HTTP/1.1" \o CRLF \o CRLF,
    "POST /alarm?alarm=1 HTTP/1.1" \o CRLF \o CRLF }

ErrCodes == {"ERR_RST", "ERR_CLSD", "ERR_ABRT"}
Keys == {"d", "x"}

\* The sizes lwIP may acknowledge on p in one call.
AckLens(p) == {pcb[p].unacked} \cup {n \in AckChunks : n < pcb[p].unacked}

Accept == \E c \in Pcbs \cup {NULL}, e \in {"ERR_OK", "ERR_MEM"}, ok \in BOOLEAN :
              tcp_server_accept(c, e, ok)
Recv == \E p \in Pcbs, r \in Requests : tcp_server_recv(p, r)
RecvNull == \E p \in Pcbs, ok \in BOOLEAN : tcp_server_recv_null(p, ok)
Sent == \E p \in Pcbs, ok \in BOOLEAN : \E n \in AckLens(p) : tcp_server_sent(p, n, ok)
Poll == \E p \in Pcbs, ok \in BOOLEAN : tcp_server_poll(p, ok)
Err == \E p \in Pcbs, e \in ErrCodes, ok \in BOOLEAN : tcp_server_err(p, e, ok)
MainLoop == \E k \in LoopStretch : Tick(k)
Key == \E k \in Keys : key_pressed_func(k)

Next ==
    \/ Accept
    \/ Recv
    \/ RecvNull
    \/ Sent
    \/ Poll
    \/ Err
    \/ MainLoop
    \/ Key
    \/ MainExit

Spec == Init /\ [][Next]_vars

\* lwIP's timer calls the poll callback of every connection that has one
\* registered, again and again, for as long as main's loop polls the stack.
FairSpec == Spec /\ \A p \in Pcbs : WF_vars(\E ok \in BOOLEAN : tcp_server_poll(p, ok))

\* main is a thread of its own: once its loop test can read complete as set
\* it does, and runs the cleanup.
MainSpec == Spec /\ WF_vars(MainExit)

(***************************************************************************)
(* The alarm over several requests of one client                           *)
(***************************************************************************)
\* The state once the first client has connected and nothing else has
\* happened; events are counted from there.
Connected ==
    /\ server_pcb = TRUE
    /\ complete = FALSE
    /\ alarm_active = FALSE
    /\ next_toggle_time = 0
    /\ beep_active = FALSE
    /\ beep_end_time = 0
    /\ led_state = FALSE
    /\ gpio_led = FALSE
    /\ pwm_level = 0
    /\ display = <<"Iniciando", "sistema...">>
    /\ now = 0
    /\ pc = "loop"
    /\ pcb = [p \in Pcbs |-> IF p = 1
                             THEN [st |-> "estab", arg |-> 1,
                                   cbs |-> Callbacks, unacked |-> 0]
                             ELSE FreePcb]
    /\ heap = [c \in Cells |-> IF c = 1 THEN [ZeroCell EXCEPT !.pcb = 1]
                               ELSE DeadCell]
    /\ last = [NoLast EXCEPT !.op = "accept", !.pcb = 1]
    /\ nevents = 0

AlarmNext == Recv \/ MainLoop

AlarmSpec == Connected /\ [][AlarmNext]_vars

(***************************************************************************)
(* Requests with header lines and with other queries                       *)
(***************************************************************************)
\* Request buffers of one client: the control page asked for with and
\* without header lines, and with queries of every shape.
HttpRequests == {
    "GET /alarm HTTP/1.1" \o CRLF \o "Host: 192.168.4.1" \o CRLF \o CRLF,
    "GET /alarm HTTP/1.1" \o CRLF
        \o "Referer: http://192.168.4.1/alarm?alarm=1" \o CRLF \o CRLF,
    "GET /alarm HTTP/1.1" \o CRLF \o CRLF,
    "GET /alarm?alarm=1 HTTP/1.1" \o CRLF \o CRLF,
    "GET /alarm?alarm=0 HTTP/1.1" \o CRLF \o CRLF,
    "GET /alarm? HTTP/1.1" \o CRLF \o CRLF,
    "GET /alarm?alarm=2 HTTP/1.1" \o CRLF \o CRLF,
    "GET /alarm?alarm=-1 HTTP/1.1" \o CRLF \o CRLF,
    "GET /alarm?sound=1 HTTP/1.1" \o CRLF \o CRLF }

HttpNext == \E p \in Pcbs, r \in HttpRequests : tcp_server_recv(p, r)

HttpSpec == Connected /\ [][HttpNext]_vars

(***************************************************************************)
(* The capacity checks on rendered text of any length                      *)
(***************************************************************************)
\* The program's templates always render 205 body bytes and 94 header
\* bytes.  To reach the capacity checks of tcp_server_recv the rendered
\* texts are lengthened here by trailing blanks.
Blanks ==
    "                                                                "

Pad(n) == SubSeq(Blanks, 1, n)

\* Blanks appended to the body and to the header: none, up to the last byte
\* the buffer holds, and one byte more.
BodyPads == {0, 50, 51}
HeaderPads == {0, 33, 34}

\* tcp_server_recv from the header rendering on, the header lengthened.
RecvSizedHeader(p, data, rq, gen, hpad) ==
    RecvRender(p, data, gen,
        snprintf(rq.buf, HEADERS_SIZE,
                 HTTP_RESPONSE_HEADERS(200, gen.len) \o Pad(hpad)))

\* tcp_server_recv from the page rendering on, for alarm_active act after
\* the toggle, the page lengthened.
RecvSizedPage(p, data, rq, act, bpad, hpad) ==
    RecvSizedHeader(p, data, rq,
        RenderPage(RESULT_SIZE, act, PageText(act) \o Pad(bpad)), hpad)

\* tcp_server_recv of a GET for the control page parsed as rq.
RecvSizedParsed(p, data, rq, bpad, hpad) ==
    /\ rq.get
    /\ strncmp0(ALARM_CONTROL, rq.buf, rq.request, Len(ALARM_CONTROL))
    /\ RecvSizedPage(p, data, rq, Toggled(rq.buf, rq.params, alarm_active),
                     bpad, hpad)

\* tcp_server_recv(arg, pcb, p, err) with the rendered texts lengthened.
RecvSized(p, data, bpad, hpad) ==
    /\ pc = "loop"
    /\ pcb[p].st = "estab"
    /\ "recv" \in pcb[p].cbs
    /\ nevents < MaxEvents
    /\ Len(data) > 0
    /\ nevents' = nevents + 1
    /\ RecvSizedParsed(p, data,
           ParseRequest(CopyRequest(heap[pcb[p].arg].headers, data)),
           bpad, hpad)
    /\ UNCHANGED <<server_pcb, complete, next_toggle_time, beep_active,
                   beep_end_time, led_state, gpio_led, pwm_level, display, now, pc>>

\* The requests for the control page, without and with a toggle.
SizedRequests == {
    "GET /alarm HTTP/1.1" \o CRLF \o CRLF,
    "GET /alarm?alarm=1 HTTP/1.1" \o CRLF \o CRLF }

Sized == \E p \in Pcbs, r \in SizedRequests, b \in BodyPads, h \in HeaderPads :
             RecvSized(p, r, b, h)

CapacityNext ==
    \/ Accept
    \/ Sized
    \/ Poll
    \/ MainLoop

CapacitySpec == Init /\ [][CapacityNext]_vars

(***************************************************************************)
(* Reading a request as a client wrote it                                  *)
(***************************************************************************)
RECURSIVE Find(_, _, _)
\* The first position at or after from where text s holds byte c, or
\* Len(s) + 1 when it holds none.
Find(s, c, from) ==
    IF from > Len(s) \/ Char(s, from) = c THEN from ELSE Find(s, c, from + 1)

\* The request line's method: the text before the first space.
MethodOf(req) == SubSeq(req, 1, Find(req, " ", 1) - 1)

\* The request target: the text between the first and the second space.
TargetOf(req) ==
    SubSeq(req, Find(req, " ", 1) + 1, Find(req, " ", Find(req, " ", 1) + 1) - 1)

\* The target's path: the text before its first '?'.
PathOf(req) == SubSeq(TargetOf(req), 1, Find(TargetOf(req), "?", 1) - 1)

\* The target's query: the text after its first '?' ("" when it has none).
QueryOf(req) ==
    SubSeq(TargetOf(req), Find(TargetOf(req), "?", 1) + 1, Len(TargetOf(req)))

\* Text s holds text t somewhere.
Contains(s, t) ==
    \E i \in 1..(Len(s) - Len(t) + 1) : SubSeq(s, i, i + Len(t) - 1) = t

\* The step is a run of tcp_server_recv on a data segment.
RecvStep == nevents' = nevents + 1 /\ last'.op = "recv"

\* The page shows the state act: status text, link target and label.
Shows(body, act) ==
    IF act
    THEN /\ Contains(body, "<p>ATIVADO</p>")
         /\ Contains(body, "href=\"?alarm=0\"")
         /\ Contains(body, ">Desligar</a>")
         /\ ~Contains(body, "DESATIVADO")
    ELSE /\ Contains(body, "<p>DESATIVADO</p>")
         /\ Contains(body, "href=\"?alarm=1\"")
         /\ Contains(body, ">Ligar</a>")
         /\ ~Contains(body, "Desligar")

(***************************************************************************)
(* Properties                                                              *)
(***************************************************************************)
\* C1: a GET of /alarm with query alarm=v, v in {0, 1}, sets alarm_active to
\* v whatever it was before, and the body the handler writes shows the state
\* after the request: ATIVADO, target 0, Desligar when it is on, DESATIVADO,
\* target 1, Ligar when it is off.
C1_ToggleThenRender ==
    [][(/\ RecvStep
        /\ MethodOf(last'.req) = "GET"
        /\ PathOf(last'.req) = "/alarm"
        /\ QueryOf(last'.req) \in {"alarm=0", "alarm=1"})
       => /\ alarm_active' = (QueryOf(last'.req) = "alarm=1")
          /\ Len(last'.wrote) = 2 => Shows(last'.wrote[2], alarm_active')
          /\ ~last'.closed =>
                 /\ Len(last'.wrote) = 2
                 /\ heap'[pcb'[last'.pcb].arg].result = last'.wrote[2]]_vars

\* C1 happens: an alarm that had been sounding was switched off by a request
\* and the page was written.
C1_Witness ==
    /\ last.op = "recv"
    /\ QueryOf(last.req) = "alarm=0"
    /\ Len(last.wrote) = 2
    /\ ~alarm_active
    /\ beep_active

\* C2: every GET whose path is not exactly /alarm is answered with the 302
\* redirect header alone, whatever the alarm state.
C2_OtherPathsRedirect ==
    (/\ last.op = "recv"
     /\ MethodOf(last.req) = "GET"
     /\ PathOf(last.req) # "/alarm"
     /\ last.wrote # <<>>)
    => last.wrote = <<"HTTP/1.1 302 Redirect\nLocation: http://192.168.4.1/alarm\n\n">>

\* C3 as stated: in every reachable state beep_active implies alarm_active
\* and the buzzer is silent while the alarm is off.
C3_BeepOnlyWhileArmed ==
    /\ beep_active => alarm_active
    /\ ~alarm_active => pwm_level = 0

\* C3: beep_active or a sounding buzzer while alarm_active is false happens
\* only when the latest update_alarm call ran with the alarm still on, that
\* is, between a disarming request and the next call of update_alarm.
C3_BeepOffAfterTick ==
    (~alarm_active /\ (beep_active \/ pwm_level # 0))
    => display = <<"ALARME", "EVACUAR">>

\* C3 happens: the alarm was disarmed while beeping and update_alarm has not
\* run since.
C3_Witness ==
    /\ ~alarm_active
    /\ beep_active
    /\ pwm_level # 0
    /\ display = <<"ALARME", "EVACUAR">>

\* C4: a main loop iteration that starts with alarm_active false leaves the
\* LED off, the buzzer off and beep_active false.
C4_TickForcesOff ==
    [][(MainLoop /\ ~alarm_active)
       => (~gpio_led' /\ pwm_level' = 0 /\ ~beep_active')]_vars

\* C4 happens: update_alarm has run on a disarmed alarm that had its LED phase
\* on and a toggle deadline pending.
C4_Witness ==
    /\ ~alarm_active
    /\ led_state
    /\ next_toggle_time > 0
    /\ display = <<"Sistema", "em repouso">>
    /\ ~gpio_led

\* C5: a request that does not start with GET produces no content and no
\* write, leaves alarm_active as it was and leaves the connection open.
C5_NonGetIgnored ==
    [][(RecvStep /\ SubSeq(last'.req, 1, 3) # "GET")
       => /\ last'.wrote = <<>>
          /\ ~last'.closed
          /\ alarm_active' = alarm_active
          /\ pcb' = pcb
          /\ pcb'[last'.pcb].st = "estab"
          /\ \A c \in Cells :
                 /\ heap'[c].result = heap[c].result
                 /\ heap'[c].result_len = heap[c].result_len
                 /\ heap'[c].header_len = heap[c].header_len
                 /\ heap'[c].live = heap[c].live]_vars

\* C5 happens: a POST of /alarm?alarm=1 was received with the alarm off, and
\* the alarm is still off and the connection still open.
C5_Witness ==
    /\ last.op = "recv"
    /\ MethodOf(last.req) = "POST"
    /\ QueryOf(last.req) = "alarm=1"
    /\ ~alarm_active
    /\ pcb[last.pcb].st = "estab"

\* C6: accept, sent, poll, error, peer close and the main loop's tick leave
\* alarm_active unchanged; it changes only in a run of tcp_server_recv on a
\* GET request.
C6_OnlyRequestsToggle ==
    [][/\ (Accept \/ Sent \/ Poll \/ Err \/ RecvNull \/ MainLoop \/ Key \/ MainExit)
          => alarm_active' = alarm_active
       /\ alarm_active' # alarm_active
          => (RecvStep /\ MethodOf(last'.req) = "GET")]_vars

\* C6 happens: a connection was accepted and the main loop has run while the
\* alarm set through an earlier request is still on.
C6_Witness ==
    /\ alarm_active
    /\ last.op = "accept"
    /\ last.pcb # NULL
    /\ display = <<"ALARME", "EVACUAR">>

\* C7: tcp_server_sent closes the connection only once every byte written to
\* it has been acknowledged.
C7_CloseOnlyWhenAllAcked ==
    (last.op = "sent" /\ last.closed) => last.unacked = 0

\* A poll event for connection p closes it and frees its state, whatever
\* was or was not received on it.
PollCloses(p) ==
    (\E ok \in BOOLEAN : tcp_server_poll(p, ok))
    => /\ pcb'[p].st = "free"
       /\ pcb'[p].cbs = {}
       /\ ~heap'[pcb[p].arg].live

\* C8 as stated: a poll event closes the connection and frees its state, and
\* with poll events fair every accepted connection is closed in the end.
C8_EveryConnectionCloses ==
    /\ [][\A p \in Pcbs : PollCloses(p)]_vars
    /\ \A p \in Pcbs : (pcb[p].st = "estab") ~> (pcb[p].st = "free")

\* C8: a poll event closes the connection and frees its state, and with poll
\* events fair every accepted connection is closed in the end unless main
\* leaves its loop first: a connection open at that moment stays open.
C8_PollCloses ==
    /\ [][\A p \in Pcbs : PollCloses(p)]_vars
    /\ \A p \in Pcbs :
          (pcb[p].st = "estab") ~> (pcb[p].st = "free" \/ pc = "done")

\* C8 happens: a connection was accepted, the client sent nothing, and poll
\* closed it and freed its state.
C8_Witness ==
    /\ last.op = "poll"
    /\ last.closed
    /\ nevents = 1
    /\ pcb[last.pcb].st = "free"
    /\ \A c \in Cells : ~heap[c].live

\* C9 as stated: at most one connection and one live connection state exist
\* at any time.
C9_OneConnection ==
    /\ Cardinality({p \in Pcbs : pcb[p].st = "estab"}) <= 1
    /\ Cardinality({c \in Cells : heap[c].live}) <= 1

\* C9: connections are not limited to one, and every open connection has a
\* live connection state of its own, which points back at it.
C9_OwnState ==
    \A p \in Pcbs :
        pcb[p].st = "estab"
        => /\ pcb[p].arg # NULL
           /\ heap[pcb[p].arg].live
           /\ heap[pcb[p].arg].pcb = p
           /\ \A q \in Pcbs :
                  (q # p /\ pcb[q].st = "estab") => pcb[q].arg # pcb[p].arg

\* C9 happens: two connections are open at once, and a request has been
\* answered on one of them.
C9_Witness ==
    /\ \A p \in Pcbs : pcb[p].st = "estab"
    /\ \E p \in Pcbs : pcb[p].unacked > 0

\* C10: a connection is closed once: the close leaves no callback registered,
\* frees a state that was allocated, is made on a control block that is still
\* open, and no open connection is left with a freed state.
C10_ClosedOnce ==
    /\ ~last.stale
    /\ ~last.refree
    /\ \A p \in Pcbs :
          /\ pcb[p].st = "free" => pcb[p].cbs = {}
          /\ pcb[p].st = "estab" => heap[pcb[p].arg].live

C12_FailedAcceptChangesNothing ==
    [][(nevents' = nevents + 1 /\ last'.op = "accept" /\ last'.ret # "ERR_OK")
          => /\ last'.ret \in {"ERR_VAL", "ERR_MEM"}
             /\ pcb' = pcb
             /\ heap' = heap
             /\ serverVars' = serverVars
             /\ alarmVars' = alarmVars
             /\ server_pcb'
             /\ pc' = "loop"]_vars

\* An accept that failed in calloc, with the server listening afterwards and
\* nothing held.
C12_Witness ==
    /\ last.op = "accept"
    /\ last.ret = "ERR_MEM"
    /\ server_pcb
    /\ pc = "loop"
    /\ \A p \in Pcbs : pcb[p].st = "free"
    /\ \A c \in Cells : ~heap[c].live


\* C13: once the shutdown key has set complete, no further iteration of the
\* main loop starts and main reaches its end; there the listening endpoint
\* is closed and the LED and the buzzer are off, whatever alarm_active and
\* beep_active are.
C13_ShutdownTerminates ==
    /\ [][complete => now' = now /\ complete']_vars
    /\ [](pc = "done" => ~server_pcb /\ ~gpio_led /\ pwm_level = 0)
    /\ complete ~> pc = "done"

\* main has ended with the alarm armed and a beep under way.
C13_Witness ==
    /\ pc = "done"
    /\ complete
    /\ alarm_active
    /\ beep_active
    /\ led_state
    /\ ~server_pcb
    /\ ~gpio_led
    /\ pwm_level = 0


\* The request is a GET of /alarm with query alarm=1.
IsArmRequest(req) ==
    /\ MethodOf(req) = "GET"
    /\ PathOf(req) = "/alarm"
    /\ QueryOf(req) = "alarm=1"

\* C14: every GET /alarm?alarm=1 leaves alarm_active true, whatever it was
\* and on whatever connection, and the body written for it is the same text
\* every time: the armed page; in particular the body of a second such
\* request equals the body of the one before it, ticks between them or not.
C14_ArmIsIdempotent ==
    [][(RecvStep /\ IsArmRequest(last'.req))
          => /\ alarm_active'
             /\ Len(last'.wrote) = 2 =>
                    /\ last'.wrote[2] = ALARM_CONTROL_BODY("ATIVADO", 0, "Desligar")
                    /\ (/\ last.op = "recv"
                        /\ IsArmRequest(last.req)
                        /\ Len(last.wrote) = 2) => last'.wrote[2] = last.wrote[2]]_vars

\* Two answered requests on one connection, the later one an arm request,
\* with the alarm on and a tick run while it was.
C14_Witness ==
    /\ last.op = "recv"
    /\ IsArmRequest(last.req)
    /\ Len(last.wrote) = 2
    /\ \E p \in Pcbs : pcb[p].unacked = 2 * (Len(last.wrote[1]) + Len(last.wrote[2]))
    /\ nevents = 3
    /\ alarm_active
    /\ led_state


\* C15: while a connection lasts, the sent_len of its state never
\* decreases, whatever data segments and acknowledgments arrive on it.
C15_SentLenNeverDecreases ==
    [][\A p \in Pcbs :
          (/\ pcb[p].st = "estab"
           /\ pcb'[p].st = "estab"
           /\ pcb'[p].arg = pcb[p].arg)
          => heap'[pcb[p].arg].sent_len >= heap[pcb[p].arg].sent_len]_vars


\* C16: while the alarm is armed, every tick that finds next_toggle_time
\* reached flips the LED's level; turning it on sets beep_active with
\* beep_end_time = now + BEEP_DURATION_MS, turning it off clears
\* beep_active, and next_toggle_time becomes now + BEEP_INTERVAL_MS,
\* whatever arming and disarming came before.
C16_DueTickFlips ==
    [][(now' # now /\ alarm_active /\ next_toggle_time <= now)
          => /\ gpio_led' = ~gpio_led
             /\ gpio_led' => beep_active' /\ beep_end_time' = now + BEEP_DURATION_MS
             /\ ~gpio_led' => ~beep_active'
             /\ next_toggle_time' = now + BEEP_INTERVAL_MS]_vars


\* C17: in every armed on-phase the pulse ends strictly before the next
\* toggle: while the LED is lit and the buzzer sounds, beep_end_time lies
\* before next_toggle_time, so the beep_end_time check silences the buzzer
\* while the LED is still lit.
C17_PulseEndsBeforeToggle ==
    (alarm_active /\ gpio_led /\ beep_active /\ pwm_level # 0)
    => beep_end_time < next_toggle_time


\* C18: no connection that has ended leaves its state allocated: every
\* allocated TCP_CONNECT_STATE_T is the state of exactly one connection that
\* is still established.
C18_NoStateOutlivesConnection ==
    \A c \in Cells :
        heap[c].live =>
            /\ \E p \in Pcbs : pcb[p].st = "estab" /\ pcb[p].arg = c
            /\ \A p, q \in Pcbs :
                   (pcb[p].st = "estab" /\ pcb[q].st = "estab"
                    /\ pcb[p].arg = c /\ pcb[q].arg = c) => p = q


\* C19: a GET whose request target is /alarm, with no '?' before the space
\* that ends it, leaves alarm_active unchanged and is answered with the page
\* of the current state, whatever follows the target in the buffer.
C19_PlainGetChangesNothing ==
    [][(/\ RecvStep
        /\ MethodOf(last'.req) = "GET"
        /\ TargetOf(last'.req) = "/alarm")
       => /\ alarm_active' = alarm_active
          /\ Len(last'.wrote) = 2 => Shows(last'.wrote[2], alarm_active)]_vars

\* The request is its request line alone: no header lines.
IsBareRequest(req) ==
    req = MethodOf(req) \o " " \o TargetOf(req) \o " HTTP/1.1" \o CRLF \o CRLF

\* C20: a GET of /alarm, sent without header lines, whose query is absent,
\* empty, or anything other than alarm=0 and alarm=1 leaves alarm_active
\* unchanged.
C20_OnlyToggleFormatChanges ==
    [][(/\ RecvStep
        /\ MethodOf(last'.req) = "GET"
        /\ PathOf(last'.req) = "/alarm"
        /\ IsBareRequest(last'.req)
        /\ QueryOf(last'.req) \notin {"alarm=0", "alarm=1"})
       => alarm_active' = alarm_active]_vars

====
